---------------------------- MODULE Spec2Model ----------------------------
(***************************************************************************)
(* Model of streamlit_app.py (MonitorAI V2): the reference store loader,   *)
(* the similarity ranker, the calibration formatter and the grading flow   *)
(* of one script run.                                                      *)
(*                                                                         *)
(* Conventions.                                                            *)
(*  - Python lists are TLA+ sequences; a Python index idx is the TLA+      *)
(*    index idx + 1.                                                       *)
(*  - Python None is the record None; a list value is List(items).         *)
(*  - A text is a sequence of lines and a line is a sequence of string     *)
(*    tokens, so the empty string "" is the empty sequence.  Non-ASCII     *)
(*    characters of the source's literals are transliterated.              *)
(*  - A cosine similarity is kept exactly, as its sign and its square      *)
(*    in lowest terms.                                                     *)
(***************************************************************************)
EXTENDS Integers, Sequences, FiniteSets, TLC

VARIABLES
    snapshot,             \* the file gabarito_embeddings.pkl
    cache,                \* the st.cache_resource entry of load_gabarito_embeddings
    reads,                \* how many times the snapshot file was opened
    GABARITO_EMBEDDINGS,  \* the module global of the current script run
    pc,                   \* position of the script run (or of the function run on its own)
    runs,                 \* script runs started in this process
    ui,                   \* st.* elements emitted by the current script run
    calls,                \* external services invoked by the current request, in order
    query_embedding,      \* find_similar_cases: query_embedding
    embeddings_data,      \* find_similar_cases: embeddings_data
    top_k,                \* find_similar_cases: top_k
    top_indices,          \* find_similar_cases: top_indices
    similar_cases,        \* find_similar_cases: result / get_gabarito_guidance: similar_cases
    gabarito_guidance,    \* result of get_gabarito_guidance
    prompt,               \* the grading request's user message
    grader_response,      \* `response` of the grader call (line 560), unbound until assigned
    sessions              \* concurrent sessions calling get_gabarito_guidance

vars == <<snapshot, cache, reads, GABARITO_EMBEDDINGS, pc, runs, ui, calls,
          query_embedding, embeddings_data, top_k, top_indices, similar_cases,
          gabarito_guidance, prompt, grader_response, sessions>>

-----------------------------------------------------------------------------
(* Bounds of the model *)

MaxStore == 3      \* most entries of a reference store
MaxK == 4          \* largest top_k handed to find_similar_cases on its own
MaxMatches == 2    \* most matches handed to the formatter on its own
MaxRuns == 2       \* script runs of one process

-----------------------------------------------------------------------------
(* Python values *)

None == [type |-> "NoneType"]
List(items) == [type |-> "list", items |-> items]
IsNone(v) == v.type = "NoneType"

Returned(v) == [raised |-> FALSE, value |-> v]
Raised(e) == [raised |-> TRUE, value |-> e]

RECURSIVE Reverse(_)
Reverse(s) == IF s = <<>> THEN <<>> ELSE Append(Reverse(Tail(s)), Head(s))

Max(a, b) == IF a >= b THEN a ELSE b
Min(a, b) == IF a <= b THEN a ELSE b

\* seq[start:] of Python: a negative start counts from the end, and both are clipped
PySliceFrom(seq, start) ==
    LET n == Len(seq)
        from == IF start < 0 THEN Max(n + start, 0) ELSE Min(start, n)
    IN  SubSeq(seq, from + 1, n)

-----------------------------------------------------------------------------
(* Cosine similarity (sklearn.metrics.pairwise.cosine_similarity) *)

RECURSIVE Gcd(_, _)
Gcd(a, b) == IF b = 0 THEN a ELSE Gcd(b, a % b)

RECURSIVE DotFrom(_, _, _)
DotFrom(a, b, i) == IF i > Len(a) THEN 0 ELSE a[i] * b[i] + DotFrom(a, b, i + 1)

Dot(a, b) == DotFrom(a, b, 1)

\* The cosine of the angle between a and b: sgn * sqrt(num / den), num/den in
\* lowest terms.  A zero-magnitude vector is normalised to the zero vector, so
\* its similarity to anything is 0.
Cosine(a, b) ==
    LET d == Dot(a, b)
        n == Dot(a, a) * Dot(b, b)
        g == Gcd(d * d, n)
    IN  IF n = 0 \/ d = 0
        THEN [sgn |-> 0, num |-> 0, den |-> 1]
        ELSE [sgn |-> IF d > 0 THEN 1 ELSE -1, num |-> (d * d) \div g, den |-> n \div g]

\* s <= t as numbers
SimLeq(s, t) ==
    IF s.sgn # t.sgn THEN s.sgn < t.sgn
    ELSE IF s.sgn = 0 THEN TRUE
    ELSE IF s.sgn = 1 THEN s.num * t.den <= t.num * s.den
    ELSE s.num * t.den >= t.num * s.den

\* Faulty variant: a cosine that divides by the norms and fails on a zero norm
CosineComputable_NonZeroNorms(query, items) ==
    /\ Len(items) > 0
    /\ Len(query) > 0
    /\ \A i \in 1..Len(items) : Len(items[i].embedding) = Len(query)
    /\ Dot(query, query) > 0
    /\ \A i \in 1..Len(items) : Dot(items[i].embedding, items[i].embedding) > 0

\* cosine_similarity(query_vector, gabarito_embeddings) computes a value only for
\* a 2-D array of at least one row and one column whose width is the query's; it
\* raises ValueError for an empty or ragged store and for a dimension mismatch
CosineComputable(query, items) ==
    /\ Len(items) > 0
    /\ Len(query) > 0
    /\ \A i \in 1..Len(items) : Len(items[i].embedding) = Len(query)

Similarities(query, items) ==
    [i \in 1..Len(items) |-> Cosine(query, items[i].embedding)]

Perms(n) == {p \in [1..n -> 1..n] : \A i, j \in 1..n : i # j => p[i] # p[j]}

\* np.argsort(similarities): the default kind is quicksort, which is not stable,
\* so every index order that sorts the scores ascending is a possible outcome
ArgsortOutcomes(sims) ==
    {p \in Perms(Len(sims)) :
        \A i \in 1..(Len(sims) - 1) : SimLeq(sims[p[i]], sims[p[i + 1]])}

-----------------------------------------------------------------------------
(* find_similar_cases *)

\* Faulty variant: the guard tests only `is None`
NoReference_OnlyNone(data) == IsNone(data)

\* line 34: the guard of the early return
NoReference(data) == IsNone(data) \/ Len(data.items) = 0

\* Faulty variant: the slice is not reversed
TopIndices_NotReversed(order, k) == PySliceFrom(order, 0 - k)

\* Faulty variant: the slice is taken from the front of the ascending order
TopIndices_FromFront(order, k) == Reverse(SubSeq(order, 1, Min(k, Len(order))))

\* line 40: np.argsort(similarities)[-top_k:][::-1], given argsort's outcome
TopIndices(order, k) == Reverse(PySliceFrom(order, 0 - k))

\* lines 42-48
CasesAt(indices, sims, items) ==
    [n \in 1..Len(indices) |->
        [similarity_score |-> sims[indices[n]],
         case_id |-> items[indices[n]].id,
         metadata |-> items[indices[n]].metadata]]

\* The argsort outcomes a call can see (one dummy outcome when argsort is not reached)
SortOrders(query, data) ==
    IF NoReference(data) \/ ~CosineComputable(query, data.items)
    THEN {<<>>}
    ELSE ArgsortOutcomes(Similarities(query, data.items))

\* find_similar_cases(query_embedding, embeddings_data, top_k), with argsort's
\* outcome `order`: the value returned (top_indices kept beside it) or the exception
find_similar_cases(query, data, k, order) ==
    IF NoReference(data)
    THEN Returned([top_indices |-> <<>>, similar_cases |-> <<>>])
    ELSE IF ~CosineComputable(query, data.items)
    THEN Raised("ValueError")
    ELSE LET sims == Similarities(query, data.items)
             idx == TopIndices(order, k)
         IN  Returned([top_indices |-> idx,
                       similar_cases |-> CasesAt(idx, sims, data.items)])

-----------------------------------------------------------------------------
(* The calibration formatter: get_gabarito_guidance, lines 65-108 *)

\* The 12 fixed checklist keys, in display order (the keys of checklist_mapping)
CHECKLIST_KEYS ==
    <<"1_atendimento_saudacao", "2_dados_cadastro", "3_script_lgpd",
      "4_tecnica_eco", "5_escuta_atenta", "6_compreensao",
      "7_confirmacao_dano", "8_cidade_loja", "9_comunicacao_eficaz",
      "10_conduta_acolhedora", "11_script_encerramento", "12_pesquisa_satisfacao">>

CHECKLIST_LABELS ==
    <<"1. Atendimento e saudacao (10 pts)", "2. Coleta de dados cadastrais (6 pts)",
      "3. Script LGPD (2 pts)", "4. Tecnica do Eco (5 pts)",
      "5. Escuta atenta (3 pts)", "6. Compreensao da solicitacao (5 pts)",
      "7. Confirmacao do dano (10 pts)", "8. Cidade e loja (10 pts)",
      "9. Comunicacao eficaz (5 pts)", "10. Conduta acolhedora (4 pts)",
      "11. Script de encerramento (15 pts)", "12. Pesquisa de satisfacao (6 pts)">>

FixedKeys == {CHECKLIST_KEYS[i] : i \in DOMAIN CHECKLIST_KEYS}

\* Faulty variant: checklist_mapping.get(criterio), without the default
checklist_mapping_get_NoDefault(criterio) ==
    IF criterio \in FixedKeys
    THEN CHECKLIST_LABELS[CHOOSE i \in DOMAIN CHECKLIST_KEYS : CHECKLIST_KEYS[i] = criterio]
    ELSE "None"

\* checklist_mapping.get(criterio, criterio)
checklist_mapping_get(criterio) ==
    IF criterio \in FixedKeys
    THEN CHECKLIST_LABELS[CHOOSE i \in DOMAIN CHECKLIST_KEYS : CHECKLIST_KEYS[i] = criterio]
    ELSE criterio

\* The largest t in lo..hi with t - 1/2 <= 1000 * sqrt(num / den)
RECURSIVE TenthsBetween(_, _, _)
TenthsBetween(sim, lo, hi) ==
    IF lo >= hi THEN lo
    ELSE LET mid == (lo + hi + 1) \div 2
         IN  IF (2 * mid - 1) * (2 * mid - 1) * sim.den <= 4000000 * sim.num
             THEN TenthsBetween(sim, mid, hi)
             ELSE TenthsBetween(sim, lo, mid - 1)

\* f"{similarity_score * 100:.1f}": the percentage to one decimal place
FormatPct(sim) ==
    LET t == TenthsBetween(sim, 0, 1000)
    IN  (IF sim.sgn < 0 THEN "-" ELSE "") \o ToString(t \div 10) \o "." \o ToString(t % 10)

\* Faulty variant: the two markers are exchanged
ChecklistLine_Inverted(item) ==
    <<"  * ", checklist_mapping_get(item[1]), ": ",
      IF item[2] THEN "(x) NAO" ELSE "(v) SIM">>

\* line 96: one checklist line; a checklist item is <<criterio, resposta>>
ChecklistLine(item) ==
    <<"  * ", checklist_mapping_get(item[1]), ": ",
      IF item[2] THEN "(v) SIM" ELSE "(x) NAO">>

\* Faulty variant: enumerate(similar_cases) without its start of 1
CaseHeaderLine_ZeroBased(i, case) ==
    <<"CASO SIMILAR #", ToString(i - 1), " - ID ", case.case_id,
      " (Similaridade: ", FormatPct(case.similarity_score), "%):">>

\* line 90
CaseHeaderLine(i, case) ==
    <<"CASO SIMILAR #", ToString(i), " - ID ", case.case_id,
      " (Similaridade: ", FormatPct(case.similarity_score), "%):">>

\* line 91
CaseScoreLine(case) ==
    <<"Pontuacao correta: ", ToString(case.metadata.pontuacao_esperada), "/81 pontos">>

\* lines 87-98: the lines of the i-th case entry
CaseEntry(i, case) ==
    <<CaseHeaderLine(i, case), CaseScoreLine(case), <<"Respostas corretas validadas:">>>>
    \o [n \in 1..Len(case.metadata.checklist) |-> ChecklistLine(case.metadata.checklist[n])]
    \o << <<>> >>

\* lines 86-98: the entries of cases[i..], numbered from i
RECURSIVE CaseEntriesFrom(_, _)
CaseEntriesFrom(cases, i) ==
    IF i > Len(cases) THEN <<>>
    ELSE CaseEntry(i, cases[i]) \o CaseEntriesFrom(cases, i + 1)

\* lines 68-69
GuidanceHeader ==
    << <<>>, <<>>, <<"=== REFERENCIA DO GABARITO VALIDADO ===">>,
       <<"Casos similares identificados (use como calibracao de rigor):">>, <<>> >>

\* lines 100-106
GuidanceTrailer ==
    << <<"INSTRUCOES CRITICAS DE CALIBRACAO:">>,
       <<"1. Use estes casos como PADRAO DE RIGOR - mantenha o mesmo nivel de exigencia">>,
       <<"2. Avalie a transcricao atual de forma INDEPENDENTE mas CONSISTENTE com o gabarito">>,
       <<"3. Se houver duvida entre SIM/NAO, compare com casos similares acima">>,
       <<"4. A pontuacao final deve refletir APENAS os criterios que foram REALMENTE cumpridos">>,
       <<"5. Seja RIGOROSO como demonstrado nos casos validados">>,
       <<"=== FIM DA REFERENCIA DO GABARITO ===">> >>

\* metadata['pontuacao_esperada'] and metadata['checklist'] raise KeyError on a
\* metadata that lacks the key
MetadataReadable(case) ==
    {"pontuacao_esperada", "checklist"} \subseteq DOMAIN case.metadata

\* Faulty variant: no early return for an empty similar_cases
FormatGuidance_NoEmptyCheck(cases) ==
    IF \E i \in 1..Len(cases) : ~MetadataReadable(cases[i]) THEN Raised("KeyError")
    ELSE Returned(GuidanceHeader \o CaseEntriesFrom(cases, 1) \o GuidanceTrailer)

\* lines 65-108: the text built from similar_cases, or the exception raised
FormatGuidance(cases) ==
    IF Len(cases) = 0 THEN Returned(<<>>)
    ELSE IF \E i \in 1..Len(cases) : ~MetadataReadable(cases[i]) THEN Raised("KeyError")
    ELSE Returned(GuidanceHeader \o CaseEntriesFrom(cases, 1) \o GuidanceTrailer)

-----------------------------------------------------------------------------
(* get_gabarito_guidance *)

TopK == 3   \* top_k=3 of the call at line 63
NoQuery == <<>>

\* client.embeddings.create(...): the service answers with a vector or fails
EmbedOk(v) == [ok |-> TRUE, embedding |-> v]
EmbedError == [ok |-> FALSE]

\* lines 57-108, the body of the try: the embedding response, the ranking and
\* the formatting; the text built or the first exception raised
GuidanceTry(store, response, order) ==
    IF ~response.ok THEN Raised("EmbeddingServiceError")
    ELSE LET r == find_similar_cases(response.embedding, store, TopK, order)
         IN  IF r.raised THEN r ELSE FormatGuidance(r.value.similar_cases)

\* similar_cases as line 63 leaves it (empty when the line is not reached or raises)
GuidanceCases(store, response, order) ==
    IF IsNone(store) \/ ~response.ok THEN <<>>
    ELSE LET r == find_similar_cases(response.embedding, store, TopK, order)
         IN  IF r.raised THEN <<>> ELSE r.value.similar_cases

\* Faulty variant: no except clause: the exception leaves the function
get_gabarito_guidance_NoExcept(store, response, order) ==
    IF IsNone(store)
    THEN [raised |-> FALSE, value |-> <<>>, warning |-> FALSE, embedded |-> FALSE]
    ELSE LET r == GuidanceTry(store, response, order)
         IN  [raised |-> r.raised, value |-> IF r.raised THEN <<>> ELSE r.value,
              warning |-> FALSE, embedded |-> TRUE]

\* get_gabarito_guidance(transcript_text) with GABARITO_EMBEDDINGS = store: the
\* text returned, whether st.warning was called (line 111) and whether the
\* embedding service was invoked
get_gabarito_guidance(store, response, order) ==
    IF IsNone(store)
    THEN [raised |-> FALSE, value |-> <<>>, warning |-> FALSE, embedded |-> FALSE]
    ELSE LET r == GuidanceTry(store, response, order)
         IN  IF r.raised
             THEN [raised |-> FALSE, value |-> <<>>, warning |-> TRUE, embedded |-> TRUE]
             ELSE [raised |-> FALSE, value |-> r.value, warning |-> FALSE, embedded |-> TRUE]

\* The argsort outcomes a call of get_gabarito_guidance can see
GuidanceOrders(store, response) ==
    IF IsNone(store) \/ ~response.ok THEN {<<>>}
    ELSE SortOrders(response.embedding, store)

-----------------------------------------------------------------------------
(* The grading request: lines 343-556 *)

\* lines 343-348: the text before the interpolated guidance
PromptHead ==
    << <<>>,
       <<"Voce e um especialista em atendimento ao cliente. Avalie a transcricao a seguir:">>,
       <<>>,
       <<"TRANSCRICAO:">>,
       <<"\"\"\"", "transcript_text", "\"\"\"">>,
       <<>> >>

\* lines 350-556: the text after the interpolated guidance
PromptRubric ==
    << <<>>,
       <<"Retorne APENAS um JSON com os seguintes campos, sem texto adicional antes ou depois:">>,
       <<"(JSON schema, checklist and instructions of lines 353-554)">>,
       <<"IMPORTANTE: Retorne APENAS o JSON, sem nenhum texto adicional">> >>

\* prompt = f"""...{gabarito_guidance}...""" (line 349): the guidance is
\* interpolated verbatim on a line of its own between transcript and rubric
BuildPrompt(guidance) ==
    PromptHead \o guidance \o << <<>> >> \o PromptRubric

-----------------------------------------------------------------------------
(* load_gabarito_embeddings and its st.cache_resource entry *)

CacheEmpty == [set |-> FALSE]
Cached(v) == [set |-> TRUE, value |-> v]

\* lines 20-23, the body of the try: open and unpickle the snapshot, then len()
LoadTry(snap) ==
    CASE snap.status = "missing" -> Raised("FileNotFoundError")
      [] snap.status = "corrupt" -> Raised("UnpicklingError")
      [] snap.status = "unsized" -> Raised("TypeError")
      [] OTHER -> Returned(snap.data)

\* Faulty variant: only FileNotFoundError is handled
load_gabarito_embeddings_NoCatchAll(snap) ==
    LET r == LoadTry(snap)
    IN  IF ~r.raised
        THEN [raised |-> FALSE, value |-> r.value, element |-> "success_gabarito"]
        ELSE IF r.value = "FileNotFoundError"
        THEN [raised |-> FALSE, value |-> None, element |-> "warning_gabarito_missing"]
        ELSE [raised |-> TRUE, value |-> None, element |-> "uncaught_exception"]

\* load_gabarito_embeddings(): the value returned and the st.* element emitted
load_gabarito_embeddings(snap) ==
    LET r == LoadTry(snap)
    IN  IF ~r.raised
        THEN [raised |-> FALSE, value |-> r.value, element |-> "success_gabarito"]
        ELSE IF r.value = "FileNotFoundError"
        THEN [raised |-> FALSE, value |-> None, element |-> "warning_gabarito_missing"]
        ELSE [raised |-> FALSE, value |-> None, element |-> "error_gabarito"]

\* Faulty variant: no cache: every call runs the function
cache_resource_Uncached(entry, snap) ==
    LET r == load_gabarito_embeddings(snap)
    IN  [raised |-> r.raised, value |-> r.value, elements |-> {r.element},
         opened |-> TRUE, entry |-> IF r.raised THEN entry ELSE Cached(r.value)]

\* @st.cache_resource (line 17): the first call runs the function and keeps what it
\* returned; a later call returns the kept value and does not run the function
cache_resource(entry, snap) ==
    IF entry.set
    THEN [raised |-> FALSE, value |-> entry.value, elements |-> {},
          opened |-> FALSE, entry |-> entry]
    ELSE LET r == load_gabarito_embeddings(snap)
         IN  [raised |-> r.raised, value |-> r.value, elements |-> {r.element},
              opened |-> TRUE, entry |-> IF r.raised THEN entry ELSE Cached(r.value)]

-----------------------------------------------------------------------------
(* The values the inputs are drawn from *)

\* Case identifiers, by position in the snapshot
IdSeq == <<"A", "B", "C", "D", "E", "F">>

\* metadata['checklist'], a dict in insertion order: a sequence of <<key, value>>
ChecklistAllYes == [i \in 1..12 |-> <<CHECKLIST_KEYS[i], TRUE>>]
ChecklistMixed == [i \in 1..12 |-> <<CHECKLIST_KEYS[i], i % 2 = 1>>]
ChecklistReordered == [i \in 1..12 |-> <<CHECKLIST_KEYS[13 - i], i % 3 = 0>>]
ChecklistUnknownKey ==
    ChecklistMixed \o << <<"13_cortesia", TRUE>>, <<"criterio_extra", FALSE>> >>
ChecklistPartial == SubSeq(ChecklistMixed, 1, 3)

Meta75 == [pontuacao_esperada |-> 75, checklist |-> ChecklistMixed]
Meta40 == [pontuacao_esperada |-> 40, checklist |-> ChecklistReordered]
Meta81 == [pontuacao_esperada |-> 81, checklist |-> ChecklistAllYes]
MetaUnknownKey == [pontuacao_esperada |-> 60, checklist |-> ChecklistUnknownKey]
MetaPartial == [pontuacao_esperada |-> 12, checklist |-> ChecklistPartial]
MetaNoScore == [checklist |-> ChecklistAllYes]

\* Reference cases without their id: embeddings of the store's dimension 2
RankBodies ==
    { [embedding |-> <<1, 0>>, metadata |-> Meta75],
      [embedding |-> <<0, 1>>, metadata |-> Meta40],
      [embedding |-> <<1, 1>>, metadata |-> Meta81],
      [embedding |-> <<-1, 0>>, metadata |-> Meta40],
      [embedding |-> <<0, 0>>, metadata |-> Meta75] }

\* Query vectors the embedder can return
QuerySet == { <<1, 0>>, <<1, 1>>, <<9, 1>>, <<-1, 1>>, <<0, 0>> }

\* The stores of at most MaxStore cases with bodies from `bodies`; ids by position
StoresOver(bodies) ==
    UNION { { [i \in 1..n |-> [id |-> IdSeq[i],
                               embedding |-> b[i].embedding,
                               metadata |-> b[i].metadata]] : b \in [1..n -> bodies] }
            : n \in 0..MaxStore }

RankStores == {None} \cup {List(s) : s \in StoresOver(RankBodies)}

\* Ranked matches handed to the formatter: distinct ids, scores descending
FormatSims == { Cosine(<<9, 1>>, <<1, 0>>), Cosine(<<1, 1>>, <<1, 0>>),
                Cosine(<<-1, 1>>, <<1, 0>>) }

FormatMetas == { Meta75, Meta40, MetaUnknownKey, MetaPartial, MetaNoScore }

FormatIds == { IdSeq[i] : i \in 1..(MaxMatches + 1) }

MatchSeqs ==
    UNION { { m \in [1..n -> [similarity_score : FormatSims, case_id : FormatIds,
                              metadata : FormatMetas]] :
                /\ \A i, j \in 1..n : i # j => m[i].case_id # m[j].case_id
                /\ \A i \in 1..(n - 1) : SimLeq(m[i + 1].similarity_score,
                                                m[i].similarity_score) }
            : n \in 0..MaxMatches }

-----------------------------------------------------------------------------
(* State outside a function run on its own *)

\* A name that no assignment has bound yet
Unbound == "unbound"

\* The browser sessions whose script runs share the cached store
Sessions == {"s1", "s2"}

\* A session that has not called get_gabarito_guidance
SessionIdle ==
    [pc |-> "start", query_embedding |-> NoQuery, similar_cases |-> <<>>,
     gabarito_guidance |-> <<>>]

NoSessions == [s \in Sessions |-> SessionIdle]

NoSnapshot == [status |-> "missing", data |-> List(<<>>)]
ProcessIdle ==
    /\ snapshot = NoSnapshot
    /\ cache = CacheEmpty
    /\ reads = 0
    /\ GABARITO_EMBEDDINGS = None
    /\ runs = 0
    /\ ui = {}
    /\ calls = <<>>
    /\ prompt = <<>>
    /\ grader_response = Unbound
    /\ sessions = NoSessions

appVars == <<snapshot, cache, reads, GABARITO_EMBEDDINGS, runs, ui, calls, prompt,
             grader_response, sessions>>

-----------------------------------------------------------------------------
(* find_similar_cases on its own: every store, query and top_k *)

RankInit ==
    /\ ProcessIdle
    /\ pc = "rank_call"
    /\ query_embedding \in QuerySet
    /\ embeddings_data \in RankStores
    /\ top_k \in 0..MaxK
    /\ top_indices = <<>>
    /\ similar_cases = <<>>
    /\ gabarito_guidance = <<>>

RankCall ==
    /\ pc = "rank_call"
    /\ \E order \in SortOrders(query_embedding, embeddings_data) :
         LET r == find_similar_cases(query_embedding, embeddings_data, top_k, order)
         IN  IF r.raised
             THEN /\ pc' = "rank_raised"
                  /\ UNCHANGED <<top_indices, similar_cases>>
             ELSE /\ pc' = "rank_ret"
                  /\ top_indices' = r.value.top_indices
                  /\ similar_cases' = r.value.similar_cases
    /\ UNCHANGED <<query_embedding, embeddings_data, top_k, gabarito_guidance>>
    /\ UNCHANGED appVars

RankNext == RankCall

RankSpec == RankInit /\ [][RankNext]_vars

-----------------------------------------------------------------------------
(* The formatter on its own: every ranked sequence of matches, formatted  *)
(* (lines 65-108) and interpolated into the grading request (line 349)    *)

FormatInit ==
    /\ ProcessIdle
    /\ pc = "format_call"
    /\ query_embedding = NoQuery
    /\ embeddings_data = None
    /\ top_k = TopK
    /\ top_indices = <<>>
    /\ similar_cases \in MatchSeqs
    /\ gabarito_guidance = <<>>

FormatCall ==
    /\ pc = "format_call"
    /\ LET r == FormatGuidance(similar_cases)
       IN  IF r.raised
           THEN pc' = "format_raised" /\ UNCHANGED gabarito_guidance
           ELSE pc' = "format_ret" /\ gabarito_guidance' = r.value
    /\ UNCHANGED <<query_embedding, embeddings_data, top_k, top_indices, similar_cases>>
    /\ UNCHANGED appVars

FormatPrompt ==
    /\ pc = "format_ret"
    /\ prompt' = BuildPrompt(gabarito_guidance)
    /\ pc' = "format_prompted"
    /\ UNCHANGED <<query_embedding, embeddings_data, top_k, top_indices, similar_cases,
                   gabarito_guidance>>
    /\ UNCHANGED <<snapshot, cache, reads, GABARITO_EMBEDDINGS, runs, ui, calls,
                   grader_response, sessions>>

FormatNext == FormatCall \/ FormatPrompt

FormatSpec == FormatInit /\ [][FormatNext]_vars

-----------------------------------------------------------------------------
(* The process: script runs of streamlit_app.py, one after another *)

\* Reference cases a snapshot may hold, without their id: the last two break the
\* data model (an embedding of another dimension, a metadata without its score)
AppBodies ==
    { [embedding |-> <<1, 0>>, metadata |-> Meta75],
      [embedding |-> <<0, 1>>, metadata |-> Meta40],
      [embedding |-> <<1>>, metadata |-> Meta81],
      [embedding |-> <<1, 1>>, metadata |-> MetaNoScore] }

AppStores == {List(s) : s \in StoresOver(AppBodies)}

SnapshotStatus == {"missing", "corrupt", "unsized", "ok"}

EmbedResponses == {EmbedError} \cup {EmbedOk(v) : v \in QuerySet}

\* What the grader call and the code after it can come to (lines 558-664)
GraderOutcomes ==
    {"api_error", "timeout", "bad_json", "render_error", "report", "report_pdf_error"}

\* lines 560-582: `response` after the grader call. An error or a timeout of
\* client.chat.completions.create raises before the assignment of line 560
GraderResponse(outcome) ==
    CASE outcome \in {"api_error", "timeout"} -> Unbound
      [] outcome = "bad_json" -> "not_json"
      [] OTHER -> "json"

\* Faulty variant: the guard of line 335 written `is not None`
Truthy_NotNone(v) == ~IsNone(v)

\* `if GABARITO_EMBEDDINGS:` (line 335): None and the empty list are falsy
Truthy(v) == ~IsNone(v) /\ Len(v.items) > 0

\* Faulty variant: the handler of line 659 reports nothing
GraderElements_SilentFailure(outcome) ==
    CASE outcome \in {"api_error", "timeout"} -> {}
      [] outcome = "bad_json" -> {"debug_expander", "error_json"}
      [] outcome = "render_error" -> {"debug_expander", "error_analysis"}
      [] outcome = "report" -> {"debug_expander", "results", "pdf_link"}
      [] OTHER -> {"debug_expander", "results", "error_pdf"}

\* lines 569-663: the elements shown after the grader call, by its outcome
GraderElements(outcome) ==
    CASE outcome \in {"api_error", "timeout"} -> {"error_analysis"}
      [] outcome = "bad_json" -> {"debug_expander", "error_json"}
      [] outcome = "render_error" -> {"debug_expander", "error_analysis"}
      [] outcome = "report" -> {"debug_expander", "results", "pdf_link"}
      [] OTHER -> {"debug_expander", "results", "error_pdf"}

Init ==
    /\ snapshot \in [status : SnapshotStatus, data : AppStores]
    /\ cache = CacheEmpty
    /\ reads = 0
    /\ GABARITO_EMBEDDINGS = None
    /\ pc = "idle"
    /\ runs = 0
    /\ ui = {}
    /\ calls = <<>>
    /\ query_embedding = NoQuery
    /\ embeddings_data = None
    /\ top_k = TopK
    /\ top_indices = <<>>
    /\ similar_cases = <<>>
    /\ gabarito_guidance = <<>>
    /\ prompt = <<>>
    /\ grader_response = Unbound
    /\ sessions = NoSessions

rankVars == <<embeddings_data, top_k, top_indices>>

\* A script run starts: line 31, GABARITO_EMBEDDINGS = load_gabarito_embeddings()
StartRun ==
    /\ pc = "idle"
    /\ runs < MaxRuns
    /\ runs' = runs + 1
    /\ LET r == cache_resource(cache, snapshot)
       IN  /\ cache' = r.entry
           /\ reads' = IF r.opened THEN reads + 1 ELSE reads
           /\ ui' = r.elements
           /\ IF r.raised
              THEN pc' = "idle" /\ UNCHANGED GABARITO_EMBEDDINGS
              ELSE pc' = "loaded" /\ GABARITO_EMBEDDINGS' = r.value
    /\ calls' = <<>>
    /\ query_embedding' = NoQuery
    /\ similar_cases' = <<>>
    /\ gabarito_guidance' = <<>>
    /\ prompt' = <<>>
    /\ grader_response' = Unbound
    /\ UNCHANGED <<snapshot, rankVars, sessions>>

\* lines 313-322: no file uploaded, or the button not pressed: the run ends
NoRequest ==
    /\ pc = "loaded"
    /\ pc' = "idle"
    /\ UNCHANGED <<snapshot, cache, reads, GABARITO_EMBEDDINGS, runs, ui, calls,
                   query_embedding, similar_cases, gabarito_guidance, prompt, grader_response,
                   rankVars, sessions>>

\* lines 323-332: the transcription; its failure is not handled and ends the run
Transcribe ==
    /\ pc = "loaded"
    /\ calls' = Append(calls, "transcribe")
    /\ \E ok \in BOOLEAN :
         IF ok
         THEN pc' = "transcribed" /\ ui' = ui \cup {"transcript_expander"}
         ELSE pc' = "idle" /\ ui' = ui \cup {"uncaught_exception"}
    /\ UNCHANGED <<snapshot, cache, reads, GABARITO_EMBEDDINGS, runs,
                   query_embedding, similar_cases, gabarito_guidance, prompt, grader_response,
                   rankVars, sessions>>

\* lines 334-341: gabarito_guidance of the request
Guidance ==
    /\ pc = "transcribed"
    /\ IF ~Truthy(GABARITO_EMBEDDINGS)
       THEN /\ gabarito_guidance' = <<>>
            /\ pc' = "guided"
            /\ UNCHANGED <<ui, calls, query_embedding, similar_cases>>
       ELSE \E response \in EmbedResponses :
            \E order \in GuidanceOrders(GABARITO_EMBEDDINGS, response) :
              LET g == get_gabarito_guidance(GABARITO_EMBEDDINGS, response, order)
              IN  /\ calls' = IF g.embedded THEN Append(calls, "embed") ELSE calls
                  /\ query_embedding' = IF response.ok THEN response.embedding ELSE NoQuery
                  /\ similar_cases' = GuidanceCases(GABARITO_EMBEDDINGS, response, order)
                  /\ IF g.raised
                     THEN /\ pc' = "idle"
                          /\ ui' = ui \cup {"uncaught_exception"}
                          /\ UNCHANGED gabarito_guidance
                     ELSE /\ pc' = "guided"
                          /\ gabarito_guidance' = g.value
                          /\ ui' = ui \cup (IF g.warning THEN {"warning_similar_cases"} ELSE {})
                                     \cup (IF g.value # <<>> THEN {"similar_cases_expander"} ELSE {})
    /\ UNCHANGED <<snapshot, cache, reads, GABARITO_EMBEDDINGS, runs, prompt,
                   grader_response, rankVars, sessions>>

\* lines 343-556: the prompt is built
Prompt ==
    /\ pc = "guided"
    /\ prompt' = BuildPrompt(gabarito_guidance)
    /\ pc' = "prompted"
    /\ UNCHANGED <<snapshot, cache, reads, GABARITO_EMBEDDINGS, runs, ui, calls,
                   query_embedding, similar_cases, gabarito_guidance, grader_response,
                   rankVars, sessions>>

\* lines 558-664: the grader is invoked once and the run ends with what it showed
Grade ==
    /\ pc = "prompted"
    /\ calls' = Append(calls, "grader")
    /\ \E outcome \in GraderOutcomes :
         /\ grader_response' = GraderResponse(outcome)
         /\ ui' = ui \cup GraderElements(outcome)
    /\ pc' = "idle"
    /\ UNCHANGED <<snapshot, cache, reads, GABARITO_EMBEDDINGS, runs,
                   query_embedding, similar_cases, gabarito_guidance, prompt,
                   rankVars, sessions>>

\* The snapshot file is replaced, removed or damaged by something outside the
\* program; only StartRun reads it, so it is enough to let it change between runs
SnapshotChange ==
    /\ pc = "idle"
    /\ \E s \in SnapshotStatus \ {snapshot.status} :
         snapshot' = [snapshot EXCEPT !.status = s]
    /\ UNCHANGED <<cache, reads, GABARITO_EMBEDDINGS, pc, runs, ui, calls,
                   query_embedding, similar_cases, gabarito_guidance, prompt, grader_response,
                   rankVars, sessions>>

Next ==
    \/ StartRun
    \/ NoRequest
    \/ Transcribe
    \/ Guidance
    \/ Prompt
    \/ Grade
    \/ SnapshotChange

Spec == Init /\ [][Next]_vars

-----------------------------------------------------------------------------
(* Concurrent sessions: Streamlit runs each browser session's script in a thread
   of its own, and st.cache_resource hands every run the same store object.
   Each session calls get_gabarito_guidance (lines 52-112); the steps of the
   sessions interleave. *)

\* Faulty variant: the ranking sorts the store it was given in place
StoreAfterRank_ReorderedInPlace(data) ==
    IF IsNone(data) THEN data ELSE List(Reverse(data.items))

\* lines 33-50: the store object after find_similar_cases ran on it. The function
\* reads embeddings_data (lines 34, 37, 45-47) and assigns only to its locals
StoreAfterRank(data) == data

\* lines 65-108: the store object after the formatter ran. case['metadata'] is
\* the store's own dict (line 47); the formatter only reads it (lines 87-96)
StoreAfterFormat(data) == data

\* The entries of the shared store: A and C tie against every query, D has
\* metadata the formatter cannot read
ConcEntries ==
    << [id |-> "A", embedding |-> <<1, 0>>, metadata |-> Meta75],
       [id |-> "B", embedding |-> <<0, 1>>, metadata |-> MetaUnknownKey],
       [id |-> "C", embedding |-> <<1, 0>>, metadata |-> Meta40],
       [id |-> "D", embedding |-> <<1, 1>>, metadata |-> MetaNoScore] >>

\* The shared store: absent, empty, or the first entries of ConcEntries
ConcStores ==
    {None} \cup {List(SubSeq(ConcEntries, 1, n)) : n \in 0..Len(ConcEntries)}

ConcInit ==
    /\ snapshot = NoSnapshot
    /\ cache = CacheEmpty
    /\ reads = 0
    /\ GABARITO_EMBEDDINGS \in ConcStores
    /\ pc = "sessions"
    /\ runs = 0
    /\ ui = {}
    /\ calls = <<>>
    /\ query_embedding = NoQuery
    /\ embeddings_data = None
    /\ top_k = TopK
    /\ top_indices = <<>>
    /\ similar_cases = <<>>
    /\ gabarito_guidance = <<>>
    /\ prompt = <<>>
    /\ grader_response = Unbound
    /\ sessions = NoSessions

concFrame == <<snapshot, cache, reads, pc, runs, ui, calls, query_embedding,
               embeddings_data, top_k, top_indices, similar_cases, gabarito_guidance,
               prompt, grader_response>>

\* lines 53-61: the guard on the store and the embedding of the transcript
SessionEmbed(s) ==
    /\ sessions[s].pc = "start"
    /\ IF IsNone(GABARITO_EMBEDDINGS)
       THEN sessions' = [sessions EXCEPT ![s].pc = "done"]
       ELSE \E resp \in EmbedResponses :
              sessions' = IF resp.ok
                          THEN [sessions EXCEPT ![s].pc = "embedded",
                                                ![s].query_embedding = resp.embedding]
                          ELSE [sessions EXCEPT ![s].pc = "done"]
    /\ UNCHANGED <<GABARITO_EMBEDDINGS, concFrame>>

\* line 63: similar_cases = find_similar_cases(query_embedding, GABARITO_EMBEDDINGS, top_k=3)
SessionRank(s) ==
    /\ sessions[s].pc = "embedded"
    /\ \E order \in SortOrders(sessions[s].query_embedding, GABARITO_EMBEDDINGS) :
         LET r == find_similar_cases(sessions[s].query_embedding, GABARITO_EMBEDDINGS,
                                     TopK, order)
         IN  sessions' = IF r.raised
                         THEN [sessions EXCEPT ![s].pc = "done"]
                         ELSE [sessions EXCEPT ![s].pc = "ranked",
                                               ![s].similar_cases = r.value.similar_cases]
    /\ GABARITO_EMBEDDINGS' = StoreAfterRank(GABARITO_EMBEDDINGS)
    /\ UNCHANGED concFrame

\* lines 65-112: the block is built and returned (or "" after an exception)
SessionFormat(s) ==
    /\ sessions[s].pc = "ranked"
    /\ LET f == FormatGuidance(sessions[s].similar_cases)
       IN  sessions' = [sessions EXCEPT ![s].pc = "done",
                                        ![s].gabarito_guidance =
                                            IF f.raised THEN <<>> ELSE f.value]
    /\ GABARITO_EMBEDDINGS' = StoreAfterFormat(GABARITO_EMBEDDINGS)
    /\ UNCHANGED concFrame

ConcNext == \E s \in Sessions : SessionEmbed(s) \/ SessionRank(s) \/ SessionFormat(s)

ConcSpec == ConcInit /\ [][ConcNext]_vars

-----------------------------------------------------------------------------
(* Properties of find_similar_cases (checked under RankSpec) *)

RankReturned == pc = "rank_ret"
RankDone == pc \in {"rank_ret", "rank_raised"}

\* The store's scores against the query of the call
StoreSims == Similarities(query_embedding, embeddings_data.items)
StoreSize == Len(embeddings_data.items)
Selected == {top_indices[n] : n \in 1..Len(top_indices)}

\* C1: whenever two returned entries have exactly equal similarity scores, the
\* entry with the lower store index appears earlier in the result; and when a tie
\* straddles the top-k cut-off, the lower-index entry is the one selected.
C1_TieLowerIndexFirst ==
    (RankReturned /\ ~NoReference(embeddings_data) /\ top_k >= 1) =>
        /\ \A i, j \in 1..Len(top_indices) :
              (i < j /\ StoreSims[top_indices[i]] = StoreSims[top_indices[j]])
                  => top_indices[i] < top_indices[j]
        /\ \A a \in Selected : \A b \in (1..StoreSize) \ Selected :
              StoreSims[a] = StoreSims[b] => a < b

\* C2: for a store of N >= 1 entries and top_k >= 1 the result has exactly
\* min(top_k, N) entries, they are distinct entries of the store carrying their own
\* score, id and metadata, and each scores at least as high as every entry left out.
C2_TopK ==
    (RankDone /\ ~NoReference(embeddings_data) /\ top_k >= 1) =>
        /\ RankReturned
        /\ Len(similar_cases) = Min(top_k, StoreSize)
        /\ Len(top_indices) = Len(similar_cases)
        /\ Cardinality(Selected) = Len(top_indices)
        /\ Selected \subseteq 1..StoreSize
        /\ \A n \in 1..Len(similar_cases) :
              /\ similar_cases[n].similarity_score = StoreSims[top_indices[n]]
              /\ similar_cases[n].case_id = embeddings_data.items[top_indices[n]].id
              /\ similar_cases[n].metadata = embeddings_data.items[top_indices[n]].metadata
        /\ \A a \in Selected : \A b \in (1..StoreSize) \ Selected :
              SimLeq(StoreSims[b], StoreSims[a])

\* C2 witness: a call that cut a store of 3 down to 2, leaving out a lower score
C2_Witness ==
    /\ RankReturned
    /\ ~IsNone(embeddings_data)
    /\ StoreSize = 3
    /\ top_k = 2
    /\ Len(similar_cases) = 2
    /\ \E b \in (1..StoreSize) \ Selected : StoreSims[b] # similar_cases[2].similarity_score

\* C3: the result is ordered descending by similarity score, so that its first
\* entry is a best match of the whole store.
C3_Descending ==
    RankReturned =>
        /\ \A i \in 1..(Len(similar_cases) - 1) :
              SimLeq(similar_cases[i + 1].similarity_score, similar_cases[i].similarity_score)
        /\ Len(similar_cases) > 0 =>
              \A b \in 1..StoreSize : SimLeq(StoreSims[b], similar_cases[1].similarity_score)

\* C3 witness: a result of three entries with three different scores
C3_Witness ==
    /\ RankReturned
    /\ Len(similar_cases) = 3
    /\ similar_cases[1].similarity_score # similar_cases[2].similarity_score
    /\ similar_cases[2].similarity_score # similar_cases[3].similarity_score

\* C4: with the store None or of zero entries, the call returns the empty
\* sequence and raises nothing, for every query and every top_k >= 0.
C4_EmptyStore ==
    (RankDone /\ (IsNone(embeddings_data) \/ StoreSize = 0)) =>
        /\ RankReturned
        /\ similar_cases = <<>>

\* C4 witness: a call on a store of zero entries has returned
C4_Witness ==
    /\ RankReturned
    /\ ~IsNone(embeddings_data)
    /\ StoreSize = 0
    /\ top_k = 3
    /\ similar_cases = <<>>

-----------------------------------------------------------------------------
(* Properties of the script run (checked under Spec) *)

Called(service) == \E n \in 1..Len(calls) : calls[n] = service

\* The calibration of the current request was entered and something in it raised:
\* the embedding service, the ranking (cosine_similarity) or the formatting
EmbeddingFailed == Called("embed") /\ query_embedding = NoQuery
RankingFailed ==
    /\ Called("embed")
    /\ query_embedding # NoQuery
    /\ ~CosineComputable(query_embedding, GABARITO_EMBEDDINGS.items)
FormattingFailed ==
    /\ Called("embed")
    /\ \E i \in 1..Len(similar_cases) : ~MetadataReadable(similar_cases[i])
CalibrationFailed == EmbeddingFailed \/ RankingFailed \/ FormattingFailed

\* C5: a failure inside the calibration (embedding call, ranking or formatting) is
\* caught: the warning is shown, the calibration block is the empty string, no
\* exception leaves the run, the prompt is built without a block and a run that
\* has ended after such a failure has invoked the grader.
C5_CalibrationFailureContained ==
    /\ CalibrationFailed =>
          /\ "warning_similar_cases" \in ui
          /\ "uncaught_exception" \notin ui
          /\ gabarito_guidance = <<>>
          /\ pc \in {"guided", "prompted", "idle"}
          /\ pc \in {"prompted", "idle"} => prompt = BuildPrompt(<<>>)
          /\ pc = "idle" => Called("grader")
    /\ (Called("embed") /\ pc = "idle") => Called("grader")

\* C5 witness: the embedding service failed and the run went on to the grader
C5_Witness ==
    /\ pc = "idle"
    /\ EmbeddingFailed
    /\ "warning_similar_cases" \in ui
    /\ Called("grader")
    /\ "results" \in ui

\* C6: load_gabarito_embeddings never lets an exception out. The step that opens
\* the snapshot ends with the run going on; a missing snapshot gives None after a
\* warning, an unreadable one gives None after an error; and while the store is
\* None the calibration does nothing (no embedding call, empty guidance).
C6_LoadNeverRaises ==
    /\ [][reads' # reads =>
            /\ pc' = "loaded"
            /\ "uncaught_exception" \notin ui'
            /\ snapshot.status = "missing" =>
                  (IsNone(GABARITO_EMBEDDINGS') /\ ui' = {"warning_gabarito_missing"})
            /\ snapshot.status \in {"corrupt", "unsized"} =>
                  (IsNone(GABARITO_EMBEDDINGS') /\ ui' = {"error_gabarito"})
            /\ snapshot.status = "ok" => GABARITO_EMBEDDINGS' = snapshot.data]_vars
    /\ [](IsNone(GABARITO_EMBEDDINGS) => (~Called("embed") /\ gabarito_guidance = <<>>))

\* C6 witness: the snapshot was unreadable, the error was shown, and the same run
\* graded a call without calibration
C6_Witness ==
    /\ reads = 1
    /\ "error_gabarito" \in ui
    /\ IsNone(GABARITO_EMBEDDINGS)
    /\ pc = "idle"
    /\ Called("grader")
    /\ ~Called("embed")

\* C7: over the script runs of one process the snapshot is opened at most once;
\* what the first load returned (a store or None) is kept, is what every run gets
\* as GABARITO_EMBEDDINGS, and never changes afterwards.
C7_LoadedOnce ==
    /\ [](/\ reads <= 1
          /\ cache.set <=> reads = 1
          /\ pc # "idle" => (cache.set /\ GABARITO_EMBEDDINGS = cache.value))
    /\ [][cache.set => (cache' = cache /\ reads' = reads)]_vars

\* C7 witness: a second run got the cached None although the snapshot is now readable
C7_Witness ==
    /\ runs = 2
    /\ pc = "loaded"
    /\ reads = 1
    /\ IsNone(GABARITO_EMBEDDINGS)
    /\ snapshot.status = "ok"
    /\ Truthy(snapshot.data)

-----------------------------------------------------------------------------
(* Properties of the formatter (checked under FormatSpec) *)

FormatReturned == pc \in {"format_ret", "format_prompted"}

IsCaseHeader(line) == Len(line) > 0 /\ line[1] = "CASO SIMILAR #"

\* The lines that only a calibration section holds
IsSectionLine(line) ==
    \/ IsCaseHeader(line)
    \/ \E n \in 1..Len(GuidanceHeader) : GuidanceHeader[n] # <<>> /\ line = GuidanceHeader[n]
    \/ \E n \in 1..Len(GuidanceTrailer) : line = GuidanceTrailer[n]

\* The positions of the case headers of a text, ascending
HeaderPositions(text) ==
    LET at == {n \in 1..Len(text) : IsCaseHeader(text[n])}
    IN  [i \in 1..Cardinality(at) |->
            CHOOSE n \in at : Cardinality({q \in at : q < n}) = i - 1]

\* The positions of the lines of the i-th case entry, its header excluded
EntryBody(text, i) ==
    LET hp == HeaderPositions(text)
        last == IF i < Len(hp) THEN hp[i + 1] - 1 ELSE Len(text) - Len(GuidanceTrailer)
    IN  (hp[i] + 1)..last

\* C8: when the ranked sequence is empty the formatter yields the empty string
\* (and raises nothing), and the grading request built from it holds no line of a
\* calibration section: it is the prompt's fixed text alone.
C8_EmptyMatchesNoSection ==
    (pc # "format_call" /\ similar_cases = <<>>) =>
        /\ FormatReturned
        /\ gabarito_guidance = <<>>
        /\ pc = "format_prompted" =>
              /\ prompt = PromptHead \o << <<>> >> \o PromptRubric
              /\ \A n \in 1..Len(prompt) : ~IsSectionLine(prompt[n])

\* C8 witness: the request was built from an empty ranked sequence
C8_Witness ==
    /\ pc = "format_prompted"
    /\ similar_cases = <<>>
    /\ Len(prompt) > 0

\* C9: for a non-empty ranked sequence of m matches whose metadata can be read,
\* the formatter raises nothing and the block holds exactly m case entries in
\* input order; the i-th carries the number i, the case id and the similarity
\* percentage of the i-th match, followed by its expected score; each case id is
\* in exactly one entry; and the block ends with the fixed trailer.
C9_EntriesInOrder ==
    (pc # "format_call" /\ Len(similar_cases) > 0
        /\ \A i \in 1..Len(similar_cases) : MetadataReadable(similar_cases[i])) =>
        /\ FormatReturned
        /\ LET hp == HeaderPositions(gabarito_guidance)
               m == Len(similar_cases)
           IN  /\ Len(hp) = m
               /\ \A i \in 1..m :
                     /\ gabarito_guidance[hp[i]] =
                           <<"CASO SIMILAR #", ToString(i), " - ID ", similar_cases[i].case_id,
                             " (Similaridade: ", FormatPct(similar_cases[i].similarity_score),
                             "%):">>
                     /\ gabarito_guidance[hp[i] + 1] =
                           <<"Pontuacao correta: ",
                             ToString(similar_cases[i].metadata.pontuacao_esperada),
                             "/81 pontos">>
                     /\ Cardinality({j \in 1..m :
                            gabarito_guidance[hp[j]][4] = similar_cases[i].case_id}) = 1
               /\ SubSeq(gabarito_guidance,
                         Len(gabarito_guidance) - Len(GuidanceTrailer) + 1,
                         Len(gabarito_guidance)) = GuidanceTrailer

\* C9 witness: a block of two entries for two matches of different scores
C9_Witness ==
    /\ pc = "format_ret"
    /\ Len(similar_cases) = 2
    /\ similar_cases[1].case_id = "B"
    /\ similar_cases[2].case_id = "A"
    /\ similar_cases[1].similarity_score # similar_cases[2].similarity_score
    /\ similar_cases[1].metadata # similar_cases[2].metadata
    /\ Len(HeaderPositions(gabarito_guidance)) = 2

\* The label of a fixed key in the static table
LabelOfFixedKey(key) ==
    CHECKLIST_LABELS[CHOOSE n \in 1..12 : CHECKLIST_KEYS[n] = key]

\* A checklist that holds each of the 12 fixed keys once (the data model's)
HasEveryFixedKey(checklist) ==
    \A key \in FixedKeys :
        Cardinality({n \in 1..Len(checklist) : checklist[n][1] = key}) = 1

\* C10: for every match whose checklist holds the 12 fixed keys, the match's
\* entry holds for each of the 12 keys exactly one line with the key's label,
\* and that line's marker is the affirmative one iff the key's value is true.
C10_ChecklistLines ==
    (FormatReturned /\ Len(similar_cases) > 0) =>
        \A i \in 1..Len(similar_cases) :
            HasEveryFixedKey(similar_cases[i].metadata.checklist) =>
                \A key \in FixedKeys :
                    LET checklist == similar_cases[i].metadata.checklist
                        resposta == checklist[CHOOSE n \in 1..Len(checklist) :
                                                  checklist[n][1] = key][2]
                        at == {p \in EntryBody(gabarito_guidance, i) :
                                  /\ Len(gabarito_guidance[p]) = 4
                                  /\ gabarito_guidance[p][2] = LabelOfFixedKey(key)}
                    IN  /\ Cardinality(at) = 1
                        /\ \A p \in at :
                              gabarito_guidance[p] =
                                  <<"  * ", LabelOfFixedKey(key), ": ",
                                    IF resposta THEN "(v) SIM" ELSE "(x) NAO">>

\* C10 witness: two entries rendered, the first from a checklist of mixed answers
\* and the second from one in another key order
C10_Witness ==
    /\ pc = "format_ret"
    /\ Len(similar_cases) = 2
    /\ similar_cases[1].metadata = Meta75
    /\ similar_cases[2].metadata = Meta40


\* A checklist without its items whose key is not one of the 12 fixed keys
RECURSIVE FixedItemsOf(_)
FixedItemsOf(checklist) ==
    IF checklist = <<>> THEN <<>>
    ELSE IF Head(checklist)[1] \in FixedKeys
    THEN <<Head(checklist)>> \o FixedItemsOf(Tail(checklist))
    ELSE FixedItemsOf(Tail(checklist))

\* The matches with the unknown keys taken out of their checklists
WithoutUnknownKeys(cases) ==
    [i \in 1..Len(cases) |->
        [cases[i] EXCEPT !.metadata.checklist = FixedItemsOf(cases[i].metadata.checklist)]]

\* A checklist line whose label is none of the 12 fixed labels
IsUnknownKeyLine(line) ==
    /\ Len(line) = 4
    /\ line[1] = "  * "
    /\ \A n \in 1..12 : line[2] # CHECKLIST_LABELS[n]

RECURSIVE WithoutUnknownKeyLines(_)
WithoutUnknownKeyLines(text) ==
    IF text = <<>> THEN <<>>
    ELSE IF IsUnknownKeyLine(Head(text)) THEN WithoutUnknownKeyLines(Tail(text))
    ELSE <<Head(text)>> \o WithoutUnknownKeyLines(Tail(text))

\* C11: a checklist key outside the 12 fixed keys does not make the formatter
\* fail: its item is rendered, at its place in the entry, with the raw key as its
\* label and the usual marker of its value, and the rest of the block is what the
\* same matches give without that item.
C11_UnknownKeyFallback ==
    (pc # "format_call" /\ Len(similar_cases) > 0
        /\ \A i \in 1..Len(similar_cases) : MetadataReadable(similar_cases[i])) =>
        /\ FormatReturned
        /\ \A i \in 1..Len(similar_cases) :
              \A n \in 1..Len(similar_cases[i].metadata.checklist) :
                  LET item == similar_cases[i].metadata.checklist[n]
                      at == HeaderPositions(gabarito_guidance)[i] + 2 + n
                  IN  item[1] \notin FixedKeys =>
                        gabarito_guidance[at] =
                            <<"  * ", item[1], ": ",
                              IF item[2] THEN "(v) SIM" ELSE "(x) NAO">>
        /\ WithoutUnknownKeyLines(gabarito_guidance) =
              FormatGuidance(WithoutUnknownKeys(similar_cases)).value

\* C11 witness: a block was produced for two matches, the second of which has
\* two unknown keys in its checklist, one true and one false
C11_Witness ==
    /\ pc = "format_ret"
    /\ Len(similar_cases) = 2
    /\ similar_cases[1].metadata = Meta75
    /\ similar_cases[2].metadata = MetaUnknownKey
    /\ Len(gabarito_guidance) > Len(WithoutUnknownKeyLines(gabarito_guidance))

-----------------------------------------------------------------------------
(* Degenerate vectors (checked under RankSpec) *)

ZeroVector(v) == \A i \in 1..Len(v) : v[i] = 0

\* The call has a non-empty store of the query's dimension, and its query or one
\* of its reference embeddings has zero magnitude
DegenerateCall ==
    /\ ~NoReference(embeddings_data)
    /\ Len(query_embedding) > 0
    /\ \A i \in 1..StoreSize : Len(embeddings_data.items[i].embedding) = Len(query_embedding)
    /\ \/ ZeroVector(query_embedding)
       \/ \E i \in 1..StoreSize : ZeroVector(embeddings_data.items[i].embedding)

\* C13: a zero-magnitude query or reference embedding does not make
\* find_similar_cases fail: the call returns, and every returned entry whose pair
\* has a zero-magnitude side has similarity 0.
C13_ZeroVectorNoThrow ==
    (RankDone /\ DegenerateCall) =>
        /\ RankReturned
        /\ \A n \in 1..Len(similar_cases) :
              (\/ ZeroVector(query_embedding)
               \/ ZeroVector(embeddings_data.items[top_indices[n]].embedding))
                  => similar_cases[n].similarity_score = [sgn |-> 0, num |-> 0, den |-> 1]

\* C13 witness: a call over three entries, one of zero magnitude, returned all
\* three, the zero one with score 0 and another with a positive score
C13_Witness ==
    /\ RankReturned
    /\ DegenerateCall
    /\ ~ZeroVector(query_embedding)
    /\ StoreSize = 3
    /\ Len(similar_cases) = 3
    /\ \E n \in 1..3 :
          /\ ZeroVector(embeddings_data.items[top_indices[n]].embedding)
          /\ similar_cases[n].similarity_score.sgn = 0
    /\ \E n \in 1..3 : similar_cases[n].similarity_score.sgn = 1

\* C13 second witness: a zero-magnitude query scored 0 against every entry
C13_WitnessZeroQuery ==
    /\ RankReturned
    /\ DegenerateCall
    /\ ZeroVector(query_embedding)
    /\ Len(similar_cases) = 2
    /\ \A n \in 1..2 : similar_cases[n].similarity_score.sgn = 0

-----------------------------------------------------------------------------
(* top_k = 0 (checked under RankSpec) *)

\* C15: for a non-empty store, find_similar_cases with k = 0 selects zero
\* entries and returns an empty sequence.
C15_ZeroKReturnsNothing ==
    (RankReturned /\ ~NoReference(embeddings_data) /\ top_k = 0) =>
        similar_cases = <<>>

\* What the code does with k = 0 on a non-empty store: order[-0:] is the whole
\* order, so every entry of the store is returned, best first
C15_ZeroKReturnsWholeStore ==
    (RankReturned /\ ~NoReference(embeddings_data) /\ top_k = 0) =>
        /\ Len(similar_cases) = StoreSize
        /\ Selected = 1..StoreSize

\* A call with k = 0 on a two-entry store that returned both entries
C15_Witness ==
    /\ RankReturned
    /\ ~NoReference(embeddings_data)
    /\ top_k = 0
    /\ StoreSize = 2
    /\ Len(similar_cases) = 2

-----------------------------------------------------------------------------
(* Properties of the grader call (checked under Spec) *)

\* How many times the current request invoked a service
Invocations(service) == Cardinality({i \in 1..Len(calls) : calls[i] = service})

\* The grader was invoked and its call raised (an error or a timeout)
GraderFailed == Called("grader") /\ grader_response = Unbound

\* C12: when the grader call fails, by an error or a timeout, the evaluation of
\* the request fails: the error is reported to the user, no result section and no
\* PDF report is produced, the grader was invoked once, and nothing is invoked
\* again for that request (the run has ended; only a new run starts a new request).
C12_GraderFailureFailsRequest ==
    /\ [](GraderFailed =>
            /\ pc = "idle"
            /\ "error_analysis" \in ui
            /\ ui \cap {"results", "pdf_link", "error_pdf"} = {}
            /\ Invocations("grader") = 1)
    /\ [][GraderFailed => (calls' = calls \/ (runs' = runs + 1 /\ calls' = <<>>))]_vars

\* C12 witness: a request with calibration guidance whose grader call failed
C12_Witness ==
    /\ GraderFailed
    /\ gabarito_guidance # <<>>
    /\ "similar_cases_expander" \in ui
    /\ calls = <<"transcribe", "embed", "grader">>

-----------------------------------------------------------------------------
(* The store under concurrent sessions (checked under ConcSpec) *)

\* What session s holds is what get_gabarito_guidance gives for the session's own
\* query and the store, under one of argsort's outcomes
ResultIsOwn(s) ==
    LET t == sessions[s]
        own == EmbedOk(t.query_embedding)
    IN  IF t.query_embedding = NoQuery
        THEN t.similar_cases = <<>> /\ t.gabarito_guidance = <<>>
        ELSE t.pc \in {"ranked", "done"} =>
               \E order \in GuidanceOrders(GABARITO_EMBEDDINGS, own) :
                  /\ t.similar_cases = GuidanceCases(GABARITO_EMBEDDINGS, own, order)
                  /\ t.pc = "done" =>
                        t.gabarito_guidance =
                            get_gabarito_guidance(GABARITO_EMBEDDINGS, own, order).value

\* C14: the store is read-only after load: no step of find_similar_cases or of
\* get_gabarito_guidance, of any session and in any interleaving, changes the
\* store (length, order, ids, embeddings, metadata), and what a request gets
\* depends only on its own query and the store, never on another request.
C14_StoreReadOnly ==
    /\ [][GABARITO_EMBEDDINGS' = GABARITO_EMBEDDINGS]_vars
    /\ [](\A s \in Sessions : ResultIsOwn(s))

\* C14 witness: two sessions are inside get_gabarito_guidance at once, both past
\* the ranking of a three-entry store, with different queries and different matches
C14_Witness ==
    /\ pc = "sessions"
    /\ ~IsNone(GABARITO_EMBEDDINGS)
    /\ Len(GABARITO_EMBEDDINGS.items) = 3
    /\ sessions["s1"].pc = "ranked"
    /\ sessions["s2"].pc = "ranked"
    /\ sessions["s1"].query_embedding # sessions["s2"].query_embedding
    /\ sessions["s1"].similar_cases # sessions["s2"].similar_cases

-----------------------------------------------------------------------------
(* Order of the service calls of a request (checked under Spec) *)

\* The request went through: the transcript was shown, nothing escaped the
\* script, and the run is over
RequestCompleted ==
    /\ pc = "idle"
    /\ "transcript_expander" \in ui
    /\ "uncaught_exception" \notin ui

\* The store of the run is Absent or holds zero entries
StoreAbsentOrEmpty ==
    \/ IsNone(GABARITO_EMBEDDINGS)
    \/ Len(GABARITO_EMBEDDINGS.items) = 0

\* C16: in a grading request whose store is absent or has zero entries, the
\* embedding service is never invoked and the grader is still invoked exactly once,
\* with an empty calibration block; with a non-empty store the embedding service
\* is invoked at most once, and always before the grader.
C16_EmbedOnlyWithStoreAndBeforeGrader ==
    /\ StoreAbsentOrEmpty =>
          /\ ~Called("embed")
          /\ gabarito_guidance = <<>>
          /\ Called("grader") => prompt = BuildPrompt(<<>>)
    /\ Invocations("embed") <= 1
    /\ Invocations("grader") <= 1
    /\ RequestCompleted => Invocations("grader") = 1
    /\ \A i, j \in 1..Len(calls) :
          (calls[i] = "embed" /\ calls[j] = "grader") => i < j

\* C16 witness: a request over a loaded store of zero entries was graded without
\* any call of the embedding service
C16_Witness ==
    /\ RequestCompleted
    /\ GABARITO_EMBEDDINGS = List(<<>>)
    /\ calls = <<"transcribe", "grader">>
    /\ prompt = BuildPrompt(<<>>)

\* C16 second witness: a request over a non-empty store called the embedding
\* service once, before the grader, and was graded with a calibration block
C16_WitnessWithStore ==
    /\ RequestCompleted
    /\ ~StoreAbsentOrEmpty
    /\ calls = <<"transcribe", "embed", "grader">>
    /\ gabarito_guidance # <<>>
    /\ prompt = BuildPrompt(gabarito_guidance)

=============================================================================
